---- MODULE Spec2Model ----
(***************************************************************************)
(* KESBA elastic k-means clusterer (aeon/clustering/_kesba.py).            *)
(*                                                                         *)
(* A time series is a sequence of channel values (one time point per       *)
(* channel); the elastic distance is the sum of the absolute channel       *)
(* differences, which is symmetric, zero on equal series and satisfies the *)
(* triangle inequality.  Arrays are sequences; cluster indices are 0-based *)
(* as in the source, so cluster j lives at position j + 1 of a sequence.   *)
(*                                                                         *)
(* Also the sampling loop of TimeSeriesCLARA._fit (aeon/clustering/        *)
(* clara.py) and TopKQuerySearch._predict (aeon/similarity_search/         *)
(* query_search/top_k.py), each with a specification of its own.           *)
(***************************************************************************)
EXTENDS Integers, Sequences, FiniteSets, TLC

\* ---------------------------------------------------------------- bounds
MaxN == 3         \* largest number of series in a collection
MaxPt == 2        \* channel values range over 0..MaxPt
MaxIter == 3      \* largest max_iter
MaxSeed == 1      \* integer random_state values range over 0..MaxSeed
MaxFits == 2      \* fit calls on one estimator
MaxAssignN == 2   \* series in a collection handed to one assignment step
MaxAssignPt == 3  \* channel values of the series and centres handed to it
MaxSkipN == 4     \* series in a collection fitted with skipped updates
MaxCacheN == 4    \* series in a collection fitted with the distance cache
MaxSamplingIters == 3  \* largest n_sampling_iters of a CLARA estimator
MaxInstances == 3 \* series in a collection a CLARA estimator is fitted on
MaxInertia == 1   \* the inertia of a fitted PAM model ranges over 0..MaxInertia
MaxPamIter == 2   \* the n_iter_ of a fitted PAM model ranges over 1..MaxPamIter
MaxCases == 2     \* series a TopKQuerySearch estimator was fitted on
MaxProfile == 3   \* candidate timestamps in the distance profile of a series
MaxDist == 1      \* the distances of a profile range over 0..MaxDist
MaxK == 3         \* largest k of a TopKQuerySearch estimator
MaxExcl == 1      \* largest exclusion_size given to its _predict
MaxChannelN == 3  \* series in a collection of two-channel series
MaxChannelPt == 1 \* their channel values range over 0..MaxChannelPt

\* ------------------------------------------------------ program constants
NRestarts == 10   \* range(10) in _fit_random_restart
INF == 1000000    \* np.inf
NoneNum == -1     \* None where the source holds a number
RngMod == 16      \* number of states of the seeded generator
None == <<>>      \* None where the source holds an array

VARIABLES
  \* constructor parameters
  n_clusters, max_iter, random_state, use_lloyds, use_ten_restarts,
  use_random_init,
  use_check_centres_change_assignment, skip_barycentre_if_labels_no_change,
  \* the init tuple (cluster_centres, distances_to_centres, labels) the
  \* caller handed to the constructor, or None
  init,
  \* the caller's data and the collection handed to the running fit
  data, X,
  \* fitted state
  cluster_centers_, labels_, inertia_, n_iter_,
  \* private state and counters
  _random_state, init_distance_calls, empty_cluster_distance_calls,
  update_distance_calls, assignment_distance_calls, total_distance_calls,
  \* position in the running call and the error it raised
  pc, err,
  \* locals of _elastic_kmeans_plus_plus, _kesba and _fit_random_restart
  indexes, cluster_centres, distances_to_centres, labels, inertia,
  prev_inertia, prev_labels, prev_cluster_centres, prev_distances_to_centres,
  i, j, restart, best,
  \* bookkeeping of the calls made so far: completed fit calls, random draws
  \* of the running call, the iterations of the running _kesba call, the
  \* estimator as it was when the running call began, the inertia of the
  \* first assignment, whether every barycentre update so far kept the sum
  \* (of squares) of its members' distances from growing, and the predict
  \* calls since the last fit
  fits, draws, trace, before, first, ba_ok, pred_in, pred_out,
  \* the result of a brute-force assignment made for comparison
  lloyds_out,
  \* what each _kesba call of the running fit returned, in order
  runs,
  \* the array whose memory each of cluster_centres, distances_to_centres
  \* and labels of the running call shares: its own, X's or the init tuple's
  base,
  \* the last _handle_empty_cluster call: how it ended, the rounds it made
  \* and the clusters that were empty after its last round
  repair,
  \* for every cluster the members it had when its centre was last averaged
  \* in the running _kesba call, and the clusters the current update pass
  \* has skipped
  averaged,
  \* for every pair of a series and a centre the centre against which the
  \* entry of prev_distances_to_centres was computed (NotComputed when the
  \* entry is the zero the array was created with), the pairs whose entry
  \* the last assignment step read instead of computing the distance, and the
  \* pairs that step skipped by the test min_dist < bound
  cache,
  \* a TimeSeriesCLARA estimator: its parameters, the locals of the running
  \* _fit and its fitted attributes (aeon/clustering/clara.py)
  clara,
  \* a TopKQuerySearch estimator: its k, the arguments and the locals of the
  \* running _predict (aeon/similarity_search/query_search/top_k.py)
  topk

params == <<n_clusters, max_iter, random_state, use_lloyds, use_ten_restarts,
            use_random_init,
            use_check_centres_change_assignment,
            skip_barycentre_if_labels_no_change>>
fitted == <<cluster_centers_, labels_, inertia_, n_iter_>>
counters == <<init_distance_calls, empty_cluster_distance_calls,
              update_distance_calls, assignment_distance_calls,
              total_distance_calls>>
seedlocals == <<indexes>>
looplocals == <<inertia, prev_inertia, prev_labels, prev_cluster_centres,
                prev_distances_to_centres, i, j>>
clusterlocals == <<cluster_centres, distances_to_centres, labels>>
restartlocals == <<restart, best>>
predvars == <<pred_in, pred_out>>
others == <<predvars, lloyds_out>>
callvars == <<fits, before, first, ba_ok>>
vars == <<params, data, X, fitted, _random_state, counters, pc, err,
          seedlocals, looplocals, clusterlocals, restartlocals, draws, trace,
          callvars, predvars, lloyds_out, runs, init, base, repair,
          averaged, cache, clara, topk>>

\* ------------------------------------------------------------- helpers
Series == {<<p>> : p \in 0..MaxPt}

Abs(a) == IF a >= 0 THEN a ELSE 0 - a

RECURSIVE SumSeq(_)
SumSeq(s) == IF s = <<>> THEN 0 ELSE Head(s) + SumSeq(Tail(s))

\* np.sum(distances_to_centres**2)
SumSq(s) == SumSeq([q \in DOMAIN s |-> s[q] * s[q]])

\* aeon.distances.distance between two series
Dist(a, b) == SumSeq([c \in DOMAIN a |-> Abs(a[c] - b[c])])

\* ndarray.min over a non-empty row
MinOf(row) == CHOOSE m \in {row[q] : q \in DOMAIN row} :
                \A q \in DOMAIN row : m <= row[q]

MaxOf(row) == CHOOSE m \in {row[q] : q \in DOMAIN row} :
                \A q \in DOMAIN row : m >= row[q]

\* ndarray.argmin: 0-based position of the first minimum
ArgMin(row) == (CHOOSE q \in DOMAIN row :
                  /\ row[q] = MinOf(row)
                  /\ \A r \in DOMAIN row : row[r] = MinOf(row) => q <= r) - 1

\* ndarray.argmax: 0-based position of the first maximum
FirstPosition(row) == 0

ArgMax(row) == (CHOOSE q \in DOMAIN row :
                  /\ row[q] = MaxOf(row)
                  /\ \A r \in DOMAIN row : row[r] = MaxOf(row) => q <= r) - 1

\* pairwise_distance(X, centres): one row per series, one column per centre
Pairwise(XX, centres) ==
  [q \in DOMAIN XX |-> [c \in DOMAIN centres |-> Dist(XX[q], centres[c])]]

\* the members of cluster jj, as 1-based positions in increasing order
Members(lab, jj) == {q \in DOMAIN lab : lab[q] = jj}

\* np.setdiff1d(np.arange(n_clusters), labels)
EmptyClusters(k, lab) == {c \in 0..(k - 1) : Members(lab, c) = {}}

\* ------------------------------------------------- random number generator
\* check_random_state(random_state): a generator seeded by an integer is a
\* fixed stream; random_state = None is numpy's global generator, whose
\* draws the program does not control.
CheckRandomStateKeepsGenerator(rs) ==
  IF _random_state = NoneNum THEN rs ELSE _random_state

CheckRandomState(rs) == rs

NextState(s) == (5 * s + 3) % RngMod

\* the pairs <<value drawn, generator afterwards>> one draw can produce; the
\* values of the global generator are taken up to MaxN + MaxPt, enough for
\* every index and every channel value to be drawn
Draw(rs) == IF rs = NoneNum
              THEN {<<v, NoneNum>> : v \in 0..(MaxN + MaxPt)}
              ELSE {<<NextState(rs), NextState(rs)>>}


\* the m-th element (m = 0 first) of a set of positions in increasing order
Nth(S, m) == CHOOSE q \in S : Cardinality({r \in S : r < q}) = m

\* RandomState.randint(n): a 0-based index below n
RandInt(n, v) == v % n

\* RandomState.choice(n, p=probabilities): a 0-based index drawn among the
\* entries of non-zero probability (probabilities = weights / weights.sum())
WeightedChoiceUniform(weights, v) == Nth(DOMAIN weights, v % Len(weights)) - 1

WeightedChoice(weights, v) ==
  LET support == {q \in DOMAIN weights : weights[q] > 0}
  IN  Nth(support, v % Cardinality(support)) - 1

\* ------------------------------------------------------ k-means++ seeding
\* the first centre: distances of every series to it, all labels 0
SeedFirstCentre(XX, idx) ==
  [min_distances |-> [q \in DOMAIN XX |-> Dist(XX[q], XX[idx + 1])],
   labels        |-> [q \in DOMAIN XX |-> 0],
   calls         |-> Len(XX) * Len(XX[idx + 1])]

\* closer_points = new_distances < min_distances
CloserPointOrEqual(new_distance, min_distance) == new_distance <= min_distance

CloserPoint(new_distance, min_distance) == new_distance < min_distance

\* one pass of the loop body for centre number c (0-based) at index idx
SeedNextCentre(XX, min_distances, lab, c, idx) ==
  LET new_distances == [q \in DOMAIN XX |-> Dist(XX[q], XX[idx + 1])]
      closer_points == {q \in DOMAIN XX :
                          CloserPoint(new_distances[q], min_distances[q])}
  IN  [min_distances |-> [q \in DOMAIN XX |->
                            IF q \in closer_points THEN new_distances[q]
                                                   ELSE min_distances[q]],
       labels        |-> [q \in DOMAIN XX |->
                            IF q \in closer_points THEN c ELSE lab[q]],
       calls         |-> Len(XX) * Len(XX[idx + 1])]

\* X[indexes]
TakeSeries(XX, idxs) == [q \in DOMAIN idxs |-> XX[idxs[q] + 1]]

\* ------------------------------------------------------------ random init
\* RandomState.choice(n, k, replace=False) on the indexes left: the pairs
\* <<k distinct indexes in the order drawn, generator afterwards>>, every
\* index drawn uniformly among those not yet taken
RECURSIVE ChoiceNoReplace(_, _, _, _)
ChoiceNoReplace(left, k, rs, taken) ==
  IF k = 0 \/ left = {}
    THEN {<<taken, rs>>}
    ELSE UNION {ChoiceNoReplace(
                  left \ {Nth(left, d[1] % Cardinality(left))}, k - 1, d[2],
                  Append(taken, Nth(left, d[1] % Cardinality(left)))) :
                d \in Draw(rs)}

\* _random_init once the indexes are drawn
RandomInitCentres(XX, idxs) ==
  LET centres == TakeSeries(XX, idxs)
      pw_dists == Pairwise(XX, centres)
  IN  [cluster_centres |-> centres,
       min_dists |-> [q \in DOMAIN XX |-> MinOf(pw_dists[q])],
       labels    |-> [q \in DOMAIN XX |-> ArgMin(pw_dists[q])],
       calls     |-> Len(XX) * Len(centres)]

\* ---------------------------------------------------- barycentre averaging
\* elastic_barycenter_average on the series at positions M (at least one),
\* started from init_barycenter: a single member is returned unchanged at
\* distance 0 without any refinement; otherwise the refinement, driven by the
\* generator, ends in some series, and the distances of all members to it
\* are returned.
BarycenterAverage(XX, M, init_barycenter, v) ==
  LET mem == [q \in 1..Cardinality(M) |-> XX[Nth(M, q - 1)]]
      centre == IF Len(mem) = 1
                  THEN mem[1]
                  ELSE [c \in DOMAIN init_barycenter |->
                          (v + c - 1) % (MaxPt + 1)]
  IN  [centre |-> centre,
       dists  |-> [q \in DOMAIN mem |-> Dist(mem[q], centre)],
       calls  |-> IF Len(mem) = 1 THEN 0 ELSE Len(mem)]

\* distances_to_centres[labels == j] = dist_to_centre
PutMembers(dtc, M, dists) ==
  [q \in DOMAIN dtc |->
     IF q \in M THEN dists[Cardinality({r \in M : r <= q})] ELSE dtc[q]]

\* ------------------------------------------------------ pruned assignment
\* bound = distances_between_centres[j, closest] / 2.0; min_dist < bound
PrunableNoHalving(min_dist, between) == min_dist < between

Prunable(min_dist, between) == 2 * min_dist < between

\* dist < min_dist: the candidate centre replaces the closest one
CloserOrFarther(dist, min_dist) == dist # min_dist

Closer(dist, min_dist) == dist < min_dist

\* the inner loop over the centres j = jj .. k-1 for one series x; st holds
\* min_dist, closest, the row of distances_to_all_centres, the number of
\* distance calls made, the centres whose entry of the row was written and
\* those among them whose distance was read from prev_distances_to_centres,
\* and the centres the test min_dist < bound skipped
RECURSIVE AssignScan(_, _, _, _, _, _, _, _, _)
AssignScan(x, centres, dbc, is_first, centres_same, prev_row, k, jj, st) ==
  IF jj >= k THEN st
  ELSE IF (~is_first) /\ jj = st.closest
    THEN AssignScan(x, centres, dbc, is_first, centres_same, prev_row, k,
                    jj + 1, st)
  ELSE IF Prunable(st.min_dist, dbc[jj + 1][st.closest + 1])
    THEN AssignScan(x, centres, dbc, is_first, centres_same, prev_row, k,
                    jj + 1, [st EXCEPT !.pruned = @ \cup {jj}])
  ELSE LET cached == centres_same[jj + 1] /\ prev_row # None
           dist == IF cached THEN prev_row[jj + 1]
                             ELSE Dist(x, centres[jj + 1])
           better == Closer(dist, st.min_dist)
       IN  AssignScan(x, centres, dbc, is_first, centres_same, prev_row, k,
                      jj + 1,
                      [min_dist |-> IF better THEN dist ELSE st.min_dist,
                       closest  |-> IF better THEN jj ELSE st.closest,
                       row      |-> [st.row EXCEPT ![jj + 1] = dist],
                       calls    |-> st.calls + (IF cached THEN 0 ELSE 1),
                       pruned   |-> st.pruned,
                       written  |-> st.written \cup {jj},
                       reused   |-> IF cached THEN st.reused \cup {jj}
                                              ELSE st.reused])

\* _kesba_assignment; k is self.n_clusters.  np.full((k), False) raises
\* ValueError for a negative k, after the counter of the centre-to-centre
\* distances was incremented.
KesbaAssignment(XX, centres, dtc, lab, is_first, prev_centres, prev_all, k) ==
  LET dbc == Pairwise(centres, centres)
      between_calls == Len(centres) * Len(centres) - k
      centres_same == [c \in 1..k |->
                         (~is_first) /\ centres[c] = prev_centres[c]]
      scan(q) == AssignScan(XX[q], centres, dbc, is_first, centres_same,
                            IF prev_all = None THEN None ELSE prev_all[q],
                            k, 0,
                            [min_dist |-> dtc[q], closest |-> lab[q],
                             row |-> [c \in 1..k |-> 0], calls |-> 0,
                             pruned |-> {}, written |-> {},
                             reused |-> {}])
      res == [q \in DOMAIN XX |-> scan(q)]
      new_dtc == [q \in DOMAIN XX |-> res[q].min_dist]
  IN  IF k < 0
        THEN [err |-> "ValueError", calls |-> between_calls]
        ELSE [err |-> "",
              labels |-> [q \in DOMAIN XX |-> res[q].closest],
              distances_to_centres |-> new_dtc,
              inertia |-> SumSq(new_dtc),
              distances_to_all_centres |-> [q \in DOMAIN XX |-> res[q].row],
              pruned |-> [q \in DOMAIN XX |-> res[q].pruned],
              written |-> [q \in DOMAIN XX |-> res[q].written],
              reused |-> [q \in DOMAIN XX |-> res[q].reused],
              calls |-> between_calls + SumSeq([q \in DOMAIN XX |-> res[q].calls])]

\* _kesba_lloyds_assignment
KesbaLloydsAssignment(XX, centres) ==
  LET curr_pw == Pairwise(XX, centres)
      new_dtc == [q \in DOMAIN XX |-> MinOf(curr_pw[q])]
  IN  [labels |-> [q \in DOMAIN XX |-> ArgMin(curr_pw[q])],
       distances_to_centres |-> new_dtc,
       inertia |-> SumSq(new_dtc),
       calls |-> Len(XX) * Len(centres)]

\* ---------------------------------------------------- empty-cluster repair
\* j > self.n_clusters, j counting the rounds made
TooManyRoundsEarly(rounds, k) == rounds >= k

TooManyRounds(rounds, k) == rounds > k

\* one pass of the while loop of _handle_empty_cluster: the centre of the
\* first empty cluster becomes the series furthest from its centre, and
\* every series is assigned to its nearest centre
RepairRound(XX, centres, dtc, lab, k) ==
  LET current_empty_cluster_index == Nth(EmptyClusters(k, lab), 0)
      index_furthest_from_centre == ArgMax(dtc)
      new_centres ==
        [centres EXCEPT ![current_empty_cluster_index + 1] =
                           XX[index_furthest_from_centre + 1]]
  IN  CHOOSE out \in
        {[cluster_centres |-> curr_pw.centres,
          labels |-> [q \in DOMAIN XX |-> ArgMin(curr_pw.dists[q])],
          distances_to_centres |-> [q \in DOMAIN XX |-> MinOf(curr_pw.dists[q])],
          calls |-> Len(XX) * Len(curr_pw.centres)] :
           curr_pw \in {[centres |-> new_centres,
                         dists |-> Pairwise(XX, new_centres)]}} : TRUE

\* the while loop of _handle_empty_cluster, rounds counting the passes made
RECURSIVE HandleRounds(_, _, _, _, _, _, _)
HandleRounds(XX, centres, dtc, lab, k, rounds, calls) ==
  IF EmptyClusters(k, lab) = {}
    THEN [err |-> "", labels |-> lab, cluster_centres |-> centres,
          distances_to_centres |-> dtc, calls |-> calls, rounds |-> rounds]
    ELSE CHOOSE out \in
           {IF TooManyRounds(rounds + 1, k)
              THEN [err |-> "EmptyClusterError", labels |-> r.labels,
                    cluster_centres |-> r.cluster_centres,
                    distances_to_centres |-> r.distances_to_centres,
                    calls |-> calls + r.calls, rounds |-> rounds + 1]
              ELSE HandleRounds(XX, r.cluster_centres,
                                r.distances_to_centres, r.labels, k,
                                rounds + 1, calls + r.calls) :
              r \in {RepairRound(XX, centres, dtc, lab, k)}} : TRUE

HandleEmptyCluster(XX, centres, dtc, lab, k) ==
  HandleRounds(XX, centres, dtc, lab, k, 0, 0)

\* ----------------------------------------------------------------- predict
\* _predict: pairwise_matrix.argmin(axis=1)
PredictLabelsLastMinimum(XX, centres) ==
  LET pairwise_matrix == Pairwise(XX, centres)
  IN  [q \in DOMAIN XX |->
         (CHOOSE c \in DOMAIN centres :
            /\ pairwise_matrix[q][c] = MinOf(pairwise_matrix[q])
            /\ \A c2 \in DOMAIN centres :
                 pairwise_matrix[q][c2] = MinOf(pairwise_matrix[q])
                   => c2 <= c) - 1]

PredictLabels(XX, centres) ==
  LET pairwise_matrix == Pairwise(XX, centres)
  IN  [q \in DOMAIN XX |-> ArgMin(pairwise_matrix[q])]


\* ------------------------------------------------------------------- state
NoBest == [labels |-> None, cluster_centres |-> None, inertia |-> INF,
           n_iter |-> NoneNum]

Snapshot == [X |-> X, fitted |-> fitted, counters |-> counters, err |-> err,
             draws |-> draws, rng |-> _random_state, fits |-> fits]

\* no centre has been averaged: position 0 is no member of any cluster
NeverAveraged == {0}

NoneAveraged == [members |-> [c \in 1..n_clusters |-> NeverAveraged],
                 skipped |-> {}]

\* no assignment step has filled prev_distances_to_centres
NotComputed == <<-1>>

NoCache == [against |-> None, reused |-> {}, pruned |-> {}]

NoRepair == [done |-> FALSE, err |-> "", rounds |-> 0, empty |-> {}]

\* arrays freshly allocated by the running call
OwnArrays == [cluster_centres |-> "own", distances_to_centres |-> "own",
              labels |-> "own"]

\* an init tuple a caller can build from a collection: its first k series as
\* centres, every series labelled with its nearest centre (the lowest on
\* ties) and the distance to it
InitTupleOf(XX, k) ==
  LET centres == SubSeq(XX, 1, k)
      pw == Pairwise(XX, centres)
  IN  [cluster_centres |-> centres,
       distances_to_centres |-> [q \in DOMAIN XX |-> MinOf(pw[q])],
       labels |-> [q \in DOMAIN XX |-> ArgMin(pw[q])]]

\* no TimeSeriesCLARA estimator and no TopKQuerySearch estimator was built
NoClara == [pc |-> "none"]
NoTopK == [pc |-> "none"]

\* KESBA.__init__, by a caller holding a collection of 1..MaxN series; the
\* random_state is one of seeds, use_check_centres_change_assignment one of
\* caches, skip_barycentre_if_labels_no_change one of skips, and an init
\* tuple is given or not as inits says (to a single run, for a number of
\* clusters the collection has); use_random_init is one of randoms; the
\* collection is one of collections and has up to most series; the ten
\* restarts are run with a seeded generator
InitOn(seeds, caches, skips, inits, randoms, most, collections) ==
  /\ n_clusters \in -1..(most + 1)
  /\ max_iter \in 0..MaxIter
  /\ random_state \in seeds
  /\ use_lloyds \in BOOLEAN
  /\ use_ten_restarts \in BOOLEAN
  /\ use_ten_restarts => random_state # NoneNum
  /\ use_random_init \in randoms
  /\ use_check_centres_change_assignment \in caches
  /\ skip_barycentre_if_labels_no_change \in skips
  /\ data \in collections
  /\ \E given \in inits :
       init = IF given /\ (~use_ten_restarts) /\ n_clusters \in 1..Len(data)
                THEN InitTupleOf(data, n_clusters) ELSE None
  /\ base = OwnArrays
  /\ repair = NoRepair
  /\ averaged = NoneAveraged
  /\ X = None
  /\ cluster_centers_ = None /\ labels_ = None
  /\ inertia_ = NoneNum /\ n_iter_ = 0
  /\ _random_state = NoneNum
  /\ init_distance_calls = 0 /\ empty_cluster_distance_calls = 0
  /\ update_distance_calls = 0 /\ assignment_distance_calls = 0
  /\ total_distance_calls = 0
  /\ pc = "idle" /\ err = ""
  /\ indexes = <<>>
  /\ cluster_centres = None /\ distances_to_centres = None /\ labels = None
  /\ inertia = INF /\ prev_inertia = INF
  /\ prev_labels = None /\ prev_cluster_centres = None
  /\ prev_distances_to_centres = None
  /\ i = NoneNum /\ j = 0 /\ restart = 0 /\ best = NoBest
  /\ fits = 0 /\ draws = 0 /\ trace = <<>> /\ first = NoneNum
  /\ ba_ok = [sum |-> TRUE, sq |-> TRUE]
  /\ before = [X |-> None, fitted |-> <<None, None, NoneNum, 0>>,
               counters |-> <<0, 0, 0, 0, 0>>, err |-> "", draws |-> 0,
               rng |-> NoneNum, fits |-> 0]
  /\ pred_in = None /\ pred_out = None
  /\ lloyds_out = None
  /\ runs = <<>>
  /\ cache = NoCache
  /\ clara = NoClara /\ topk = NoTopK

\* the same for collections of up to most series of one channel
InitBase(seeds, caches, skips, inits, most) ==
  InitOn(seeds, caches, skips, inits, {FALSE}, most,
         UNION {[1..n -> Series] : n \in 1..most})

InitWith(seeds, caches) == InitBase(seeds, caches, {FALSE}, {FALSE}, MaxN)

Init == InitWith({NoneNum} \cup 0..MaxSeed, {FALSE})

InitSeeded == InitWith(0..MaxSeed, {FALSE})

\* _check_params: n_clusters > X.shape[0]
TooManyClustersOffByOne(k, n) == k > n + 1

TooManyClusters(k, n) == k > n

\* the running call raises e: the fitted state stays as it is
Raise(e) ==
  /\ err' = e
  /\ pc' = "idle"
  /\ fits' = fits + 1
  /\ UNCHANGED fitted

TotalCalls(a, b, c, d) == a + b + c + d

\* ------------------------------------------------- arrays and their memory
\* self.init[0].copy(), self.init[1].copy(), self.init[2].copy(): the running
\* call works on arrays of its own
InitItself == "init"

CopyOfInit == "own"

\* centers = X[indexes]: indexing with a list of indexes copies the rows
TakenSeriesView == "X"

TakenSeriesBase == "own"

\* X after an in-place write that left cc in cluster_centres: rows taken
\* from X as a view are rows of X
XAfter(b, cc) ==
  IF b.cluster_centres = "X"
    THEN [q \in DOMAIN X |->
            IF \E c \in DOMAIN indexes : indexes[c] + 1 = q
              THEN cc[CHOOSE c \in DOMAIN indexes : indexes[c] + 1 = q]
              ELSE X[q]]
    ELSE X

\* the init tuple after in-place writes that left cc, dtc and lab in
\* cluster_centres, distances_to_centres and labels
InitAfter(b, cc, dtc, lab) ==
  IF init = None THEN init
  ELSE [cluster_centres |-> IF b.cluster_centres = "init"
                              THEN cc ELSE init.cluster_centres,
        distances_to_centres |-> IF b.distances_to_centres = "init"
                                   THEN dtc ELSE init.distances_to_centres,
        labels |-> IF b.labels = "init" THEN lab ELSE init.labels]

\* ------------------------------------------------------------------ actions
\* _fit up to _check_params: the generator is re-created from random_state,
\* then n_clusters is compared with the number of cases
FitCall(n) ==
  /\ pc = "idle"
  /\ X' = SubSeq(data, 1, n)
  /\ _random_state' = CheckRandomState(random_state)
  /\ before' = Snapshot
  /\ draws' = 0 /\ trace' = <<>> /\ first' = NoneNum
  /\ ba_ok' = [sum |-> TRUE, sq |-> TRUE]
  /\ pred_in' = None /\ pred_out' = None
  /\ UNCHANGED lloyds_out
  /\ runs' = <<>>
  /\ base' = OwnArrays
  /\ repair' = NoRepair
  /\ averaged' = NoneAveraged
  /\ indexes' = <<>>
  /\ cluster_centres' = None /\ distances_to_centres' = None /\ labels' = None
  /\ inertia' = INF /\ prev_inertia' = INF
  /\ prev_labels' = None /\ prev_cluster_centres' = None
  /\ prev_distances_to_centres' = None
  /\ i' = NoneNum /\ j' = 0 /\ restart' = 0 /\ best' = NoBest
  /\ IF TooManyClusters(n_clusters, n)
       THEN Raise("ValueError")
       ELSE /\ err' = "" /\ pc' = "seed0"
            /\ UNCHANGED <<fitted, fits>>
  /\ UNCHANGED <<clara, topk>>
  /\ cache' = NoCache
  /\ UNCHANGED <<params, data, counters, init>>

\* the first fit is given the caller's whole collection
Fit == fits = 0 /\ FitCall(Len(data))

\* a later fit on the same estimator is given the first n series of it
Refit == \E n \in 1..Len(data) : fits >= 1 /\ fits < MaxFits /\ FitCall(n)

\* _elastic_kmeans_plus_plus up to the loop: the first centre is drawn
\* uniformly; a single run seeds this way when no init tuple is given, a
\* restart when use_random_init is off
SeedFirst ==
  /\ pc = "seed0"
  /\ IF use_ten_restarts THEN ~use_random_init ELSE init = None
  /\ averaged' = NoneAveraged
  /\ \E d \in Draw(_random_state) :
       \E r \in {SeedFirstCentre(X, RandInt(Len(X), d[1]))} :
           /\ _random_state' = d[2]
           /\ indexes' = <<RandInt(Len(X), d[1])>>
           /\ distances_to_centres' = r.min_distances
           /\ labels' = r.labels
           /\ init_distance_calls' = init_distance_calls + r.calls
  /\ draws' = draws + 1
  /\ pc' = "seed"
  /\ trace' = <<>>
  /\ cluster_centres' = None
  /\ inertia' = INF /\ prev_inertia' = INF
  /\ prev_labels' = None /\ prev_cluster_centres' = None
  /\ prev_distances_to_centres' = None
  /\ i' = NoneNum /\ j' = 0
  /\ UNCHANGED <<clara, topk>>
  /\ cache' = NoCache
  /\ UNCHANGED <<params, data, X, fitted, err, restartlocals, callvars,
                 others, empty_cluster_distance_calls, update_distance_calls,
                 assignment_distance_calls, total_distance_calls>>
  /\ UNCHANGED runs
  /\ UNCHANGED <<init, base>>
  /\ UNCHANGED repair

\* one pass of the seeding loop: the next centre is drawn with probability
\* proportional to min_distances; probabilities that are all NaN (the
\* distances sum to 0) make RandomState.choice raise ValueError
SeedNext ==
  /\ pc = "seed"
  /\ Len(indexes) < n_clusters
  /\ IF SumSeq(distances_to_centres) = 0
       THEN /\ Raise("ValueError")
            /\ UNCHANGED <<_random_state, indexes, distances_to_centres,
                           labels, init_distance_calls, draws>>
       ELSE /\ \E d \in Draw(_random_state) :
                 \E next_center_idx \in
                        {WeightedChoice(distances_to_centres, d[1])} :
                 \E r \in {SeedNextCentre(X, distances_to_centres, labels,
                                          Len(indexes), next_center_idx)} :
                     /\ _random_state' = d[2]
                     /\ indexes' = Append(indexes, next_center_idx)
                     /\ distances_to_centres' = r.min_distances
                     /\ labels' = r.labels
                     /\ init_distance_calls' = init_distance_calls + r.calls
            /\ draws' = draws + 1
            /\ UNCHANGED <<pc, err, fits, fitted>>
  /\ UNCHANGED <<clara, topk>>
  /\ UNCHANGED cache
  /\ UNCHANGED <<params, data, X, looplocals, cluster_centres, restartlocals,
                 trace, before, first, ba_ok, others,
                 empty_cluster_distance_calls, update_distance_calls,
                 assignment_distance_calls, total_distance_calls>>
  /\ UNCHANGED runs
  /\ UNCHANGED <<init, base>>
  /\ UNCHANGED repair
  /\ UNCHANGED averaged

\* _fit after the initial centres are there: max_iter = 0 stores them,
\* otherwise _kesba or _kesba_lloyds is entered; _fit_random_restart always
\* enters _kesba
FitDispatch(lab, dtc) ==
  IF (~use_ten_restarts) /\ max_iter = 0
    THEN /\ labels_' = lab
         /\ cluster_centers_' = cluster_centres'
         /\ inertia_' = SumSq(dtc)
         /\ n_iter_' = 0
         /\ total_distance_calls' =
              TotalCalls(init_distance_calls, empty_cluster_distance_calls,
                         update_distance_calls, assignment_distance_calls)
         /\ pc' = "idle" /\ fits' = fits + 1
         /\ UNCHANGED i
    ELSE /\ pc' = IF (~use_ten_restarts) /\ use_lloyds THEN "lloyds"
                  ELSE IF max_iter = 0 THEN "return"
                  ELSE IF n_clusters > 0 THEN "update" ELSE "assign"
         /\ i' = IF max_iter = 0 \/ ((~use_ten_restarts) /\ use_lloyds)
                   THEN NoneNum ELSE 0
         /\ UNCHANGED <<fitted, total_distance_calls, fits>>

\* the seeding returns X[indexes], and _fit or _fit_random_restart goes on
SeedReturn ==
  /\ pc = "seed"
  /\ Len(indexes) >= n_clusters
  /\ cluster_centres' = TakeSeries(X, indexes)
  /\ base' = [OwnArrays EXCEPT !.cluster_centres = TakenSeriesBase]
  /\ FitDispatch(labels, distances_to_centres)
  /\ UNCHANGED <<clara, topk>>
  /\ UNCHANGED cache
  /\ UNCHANGED <<params, data, X, _random_state, err, indexes,
                 distances_to_centres, labels, inertia, prev_inertia,
                 prev_labels, prev_cluster_centres, prev_distances_to_centres,
                 j, restartlocals, draws, trace, before, first, ba_ok,
                 others, init_distance_calls, empty_cluster_distance_calls,
                 update_distance_calls, assignment_distance_calls>>
  /\ UNCHANGED <<runs, init>>
  /\ UNCHANGED repair
  /\ UNCHANGED averaged

\* _random_init, in a restart with use_random_init: n_clusters distinct
\* series are drawn as centres and every series is labelled with its nearest
\* centre (the lowest on ties); n_clusters <= 0 leaves nothing to take the
\* minimum over, a ValueError
RandomInit ==
  /\ pc = "seed0"
  /\ use_ten_restarts /\ use_random_init
  /\ IF n_clusters <= 0
       THEN /\ Raise("ValueError")
            /\ UNCHANGED <<_random_state, indexes, clusterlocals, i,
                           init_distance_calls, total_distance_calls, draws,
                           base>>
       ELSE /\ \E ch \in ChoiceNoReplace(0..(Len(X) - 1), n_clusters,
                                          _random_state, <<>>) :
                 \E r \in {RandomInitCentres(X, ch[1])} :
                     /\ _random_state' = ch[2]
                     /\ indexes' = ch[1]
                     /\ cluster_centres' = r.cluster_centres
                     /\ distances_to_centres' = r.min_dists
                     /\ labels' = r.labels
                     /\ init_distance_calls' = init_distance_calls + r.calls
                     /\ FitDispatch(r.labels, r.min_dists)
            /\ base' = [OwnArrays EXCEPT !.cluster_centres = TakenSeriesBase]
            /\ draws' = draws + 1
            /\ UNCHANGED err
  /\ averaged' = NoneAveraged
  /\ trace' = <<>>
  /\ inertia' = INF /\ prev_inertia' = INF
  /\ prev_labels' = None /\ prev_cluster_centres' = None
  /\ prev_distances_to_centres' = None
  /\ j' = 0
  /\ UNCHANGED <<clara, topk>>
  /\ cache' = NoCache
  /\ UNCHANGED <<params, data, X, restartlocals, before, first, ba_ok,
                 others, empty_cluster_distance_calls, update_distance_calls,
                 assignment_distance_calls>>
  /\ UNCHANGED <<runs, init>>
  /\ UNCHANGED repair

\* _fit with an init tuple: the three arrays are copied and no seeding is run
InitTuple ==
  /\ pc = "seed0"
  /\ (~use_ten_restarts) /\ init # None
  /\ cluster_centres' = init.cluster_centres
  /\ distances_to_centres' = init.distances_to_centres
  /\ labels' = init.labels
  /\ base' = [cluster_centres |-> CopyOfInit,
              distances_to_centres |-> CopyOfInit, labels |-> CopyOfInit]
  /\ FitDispatch(init.labels, init.distances_to_centres)
  /\ UNCHANGED <<clara, topk>>
  /\ UNCHANGED cache
  /\ UNCHANGED <<params, data, X, _random_state, err, indexes, inertia,
                 prev_inertia, prev_labels, prev_cluster_centres,
                 prev_distances_to_centres, j, restartlocals, draws, trace,
                 before, first, ba_ok, others, init_distance_calls,
                 empty_cluster_distance_calls, update_distance_calls,
                 assignment_distance_calls>>
  /\ UNCHANGED <<runs, init>>
  /\ UNCHANGED repair
  /\ UNCHANGED averaged

\* _kesba_lloyds, first iteration: _kesba_update is called without its
\* prev_labels argument, which raises TypeError
KesbaLloyds ==
  /\ pc = "lloyds"
  /\ Raise("TypeError")
  /\ UNCHANGED <<clara, topk>>
  /\ UNCHANGED cache
  /\ UNCHANGED <<params, data, X, _random_state, counters, seedlocals,
                 looplocals, clusterlocals, restartlocals, draws, trace,
                 before, first, ba_ok, others>>
  /\ UNCHANGED runs
  /\ UNCHANGED <<init, base>>
  /\ UNCHANGED repair
  /\ UNCHANGED averaged


\* np.array_equal(labels == j, prev_labels == j): with prev_labels = None
\* the second mask is the scalar False, which equals no array of labels
MembersUnchanged(lab, prev_lab, jj) ==
  prev_lab # None /\ Members(lab, jj) = Members(prev_lab, jj)

\* _kesba_update, the pass of its loop for cluster j: with
\* skip_barycentre_if_labels_no_change a cluster whose members are those of
\* prev_labels is left as it is; otherwise the centre and the members'
\* distances are replaced by the barycentre average's; averaging an empty
\* cluster is an error of the averager
UpdateCluster ==
  /\ pc = "update"
  /\ \E M \in {Members(labels, j)} :
     \E passed \in {IF j = 0 THEN {} ELSE averaged.skipped} :
         IF skip_barycentre_if_labels_no_change
              /\ MembersUnchanged(labels, prev_labels, j)
           THEN /\ averaged' = [averaged EXCEPT !.skipped = passed \cup {j}]
                /\ j' = IF j + 1 < n_clusters THEN j + 1 ELSE 0
                /\ pc' = IF j + 1 < n_clusters THEN "update" ELSE "assign"
                /\ UNCHANGED <<_random_state, cluster_centres,
                               distances_to_centres, update_distance_calls,
                               draws, ba_ok, err, fits, fitted>>
         ELSE IF M = {}
           THEN /\ Raise("BarycenterError")
                /\ UNCHANGED <<_random_state, cluster_centres,
                               distances_to_centres, update_distance_calls,
                               draws, j, ba_ok, averaged>>
           ELSE /\ \E d \in (IF Cardinality(M) >= 2 THEN Draw(_random_state)
                                                   ELSE {<<0, _random_state>>}) :
                     \E ba \in {BarycenterAverage(X, M,
                                                   cluster_centres[j + 1],
                                                   d[1])} :
                     \E old \in {[q \in 1..Cardinality(M) |->
                                    distances_to_centres[Nth(M, q - 1)]]} :
                         /\ _random_state' = d[2]
                         /\ cluster_centres' =
                              [cluster_centres EXCEPT ![j + 1] = ba.centre]
                         /\ distances_to_centres' =
                              PutMembers(distances_to_centres, M, ba.dists)
                         /\ update_distance_calls' =
                              update_distance_calls + ba.calls
                         /\ ba_ok' =
                              [sum |-> ba_ok.sum
                                         /\ SumSeq(ba.dists) <= SumSeq(old),
                               sq  |-> ba_ok.sq
                                         /\ SumSq(ba.dists) <= SumSq(old)]
                /\ averaged' = [members |-> [averaged.members
                                               EXCEPT ![j + 1] = M],
                                skipped |-> passed]
                /\ draws' = draws + (IF Cardinality(M) >= 2 THEN 1 ELSE 0)
                /\ j' = IF j + 1 < n_clusters THEN j + 1 ELSE 0
                /\ pc' = IF j + 1 < n_clusters THEN "update" ELSE "assign"
                /\ UNCHANGED <<err, fits, fitted>>
  /\ X' = XAfter(base, cluster_centres')
  /\ init' = InitAfter(base, cluster_centres', distances_to_centres', labels)
  /\ UNCHANGED base
  /\ UNCHANGED <<clara, topk>>
  /\ UNCHANGED cache
  /\ UNCHANGED <<params, data, seedlocals, labels, inertia, prev_inertia,
                 prev_labels, prev_cluster_centres, prev_distances_to_centres,
                 i, restartlocals, trace, before, first, others,
                 init_distance_calls, empty_cluster_distance_calls,
                 assignment_distance_calls, total_distance_calls>>
  /\ UNCHANGED runs
  /\ UNCHANGED repair

\* the centre every entry of distances_to_all_centres was computed against:
\* the current one for a distance computed in this step, the one of the
\* entry read for a distance taken from prev_distances_to_centres, none for
\* an entry the step did not write
CacheAgainst(prev_against, centres, written, reused) ==
  [q \in DOMAIN written |->
     [c \in DOMAIN centres |->
        IF (c - 1) \in reused[q] THEN prev_against[q][c]
        ELSE IF (c - 1) \in written[q] THEN centres[c]
        ELSE NotComputed]]

\* the _kesba_assignment call of the iteration and the reset of the cache
\* that follows it
Assign ==
  /\ pc = "assign"
  /\ \E r \in {KesbaAssignment(X, cluster_centres, distances_to_centres,
                                labels, i = 0, prev_cluster_centres,
                                prev_distances_to_centres, n_clusters)} :
         /\ assignment_distance_calls' = assignment_distance_calls + r.calls
         /\ IF r.err # ""
              THEN /\ Raise(r.err)
                   /\ UNCHANGED <<labels, distances_to_centres, inertia,
                                  prev_distances_to_centres, first, cache>>
              ELSE /\ labels' = r.labels
                   /\ distances_to_centres' = r.distances_to_centres
                   /\ inertia' = r.inertia
                   /\ prev_distances_to_centres' =
                        IF use_check_centres_change_assignment
                          THEN r.distances_to_all_centres ELSE None
                   /\ cache' =
                        [against |->
                           IF use_check_centres_change_assignment
                             THEN CacheAgainst(cache.against, cluster_centres,
                                               r.written, r.reused)
                             ELSE None,
                         reused |-> {qc \in (DOMAIN r.reused) \X
                                                  (0..(n_clusters - 1)) :
                                       qc[2] \in r.reused[qc[1]]},
                         pruned |-> {qc \in (DOMAIN r.pruned) \X
                                                  (0..(n_clusters - 1)) :
                                       qc[2] \in r.pruned[qc[1]]}]
                   /\ first' = IF first = NoneNum THEN r.inertia ELSE first
                   /\ pc' = "resolve"
                   /\ UNCHANGED <<err, fits, fitted>>
  /\ init' = InitAfter(base, cluster_centres, distances_to_centres', labels')
  /\ UNCHANGED <<X, base>>
  /\ UNCHANGED <<clara, topk>>
  /\ UNCHANGED <<params, data, _random_state, seedlocals, cluster_centres,
                 prev_inertia, prev_labels, prev_cluster_centres, i, j,
                 restartlocals, draws, trace, before, ba_ok, others,
                 init_distance_calls, empty_cluster_distance_calls,
                 update_distance_calls, total_distance_calls>>
  /\ UNCHANGED runs
  /\ UNCHANGED repair
  /\ UNCHANGED averaged

\* the _handle_empty_cluster call of the iteration
Resolve ==
  /\ pc = "resolve"
  /\ \E r \in {HandleEmptyCluster(X, cluster_centres, distances_to_centres,
                                   labels, n_clusters)} :
         /\ empty_cluster_distance_calls' =
              empty_cluster_distance_calls + r.calls
         /\ repair' = [done |-> TRUE, err |-> r.err, rounds |-> r.rounds,
                       empty |-> EmptyClusters(n_clusters, r.labels)]
         /\ IF r.err # ""
              THEN /\ Raise(r.err)
                   /\ UNCHANGED <<clusterlocals, trace, base>>
              ELSE /\ labels' = r.labels
                   /\ cluster_centres' = r.cluster_centres
                   /\ base' = IF r.rounds = 0 THEN base
                              ELSE [base EXCEPT
                                      !.distances_to_centres = "own",
                                      !.labels = "own"]
                   /\ distances_to_centres' = r.distances_to_centres
                   /\ trace' = Append(trace,
                                      [inertia |-> inertia,
                                       labels |-> r.labels,
                                       cluster_centres |-> r.cluster_centres])
                   /\ pc' = "check"
                   /\ UNCHANGED <<err, fits, fitted>>
  /\ X' = XAfter(base, cluster_centres')
  /\ init' = InitAfter(base', cluster_centres', distances_to_centres', labels')
  /\ UNCHANGED <<clara, topk>>
  /\ UNCHANGED cache
  /\ UNCHANGED <<params, data, _random_state, seedlocals, looplocals,
                 restartlocals, draws, before, first, ba_ok, others,
                 init_distance_calls, update_distance_calls,
                 assignment_distance_calls, total_distance_calls>>
  /\ UNCHANGED runs
  /\ UNCHANGED averaged

\* for i in range(self.max_iter): another iteration follows iteration ii
IterationsLeftOneMore(ii, mi) == ii + 1 <= mi

IterationsLeft(ii, mi) == ii + 1 < mi

\* np.array_equal(prev_labels, labels): None equals no array of labels
LabelsRepeatOrFirst(prev_lab, lab) == prev_lab = None \/ prev_lab = lab

LabelsRepeat(prev_lab, lab) == prev_lab # None /\ prev_lab = lab

\* the end of the loop body: stop when the labels repeat, else remember the
\* iteration and go on while iterations are left
Converge ==
  /\ pc = "check"
  /\ IF LabelsRepeat(prev_labels, labels)
       THEN /\ pc' = "return"
            /\ UNCHANGED <<prev_inertia, prev_labels, prev_cluster_centres, i>>
       ELSE /\ prev_inertia' = inertia
            /\ prev_labels' = labels
            /\ prev_cluster_centres' = cluster_centres
            /\ IF IterationsLeft(i, max_iter)
                 THEN /\ i' = i + 1
                      /\ pc' = IF n_clusters > 0 THEN "update" ELSE "assign"
                 ELSE /\ pc' = "return"
                      /\ UNCHANGED i
  /\ UNCHANGED <<clara, topk>>
  /\ UNCHANGED cache
  /\ UNCHANGED <<params, data, X, fitted, _random_state, counters, err,
                 seedlocals, clusterlocals, inertia, prev_distances_to_centres,
                 j, restartlocals, draws, trace, callvars, others>>
  /\ UNCHANGED runs
  /\ UNCHANGED <<init, base>>
  /\ UNCHANGED repair
  /\ UNCHANGED averaged

\* inertia < best_inertia: the run replaces the best one kept so far
BetterRunOrEqual(run_inertia, best_inertia) == run_inertia <= best_inertia

BetterRun(run_inertia, best_inertia) == run_inertia < best_inertia

\* what _kesba returns after its loop
KesbaResult ==
  IF inertia < prev_inertia
    THEN [labels |-> prev_labels, cluster_centres |-> prev_cluster_centres,
          inertia |-> prev_inertia, n_iter |-> i + 1]
    ELSE [labels |-> labels, cluster_centres |-> cluster_centres,
          inertia |-> inertia, n_iter |-> i + 1]

\* _kesba returns (i is unbound when the loop body never ran); _fit stores
\* the result, _fit_random_restart keeps the best of its runs and stores it
\* after the last one
Return ==
  /\ pc = "return"
  /\ IF i = NoneNum
       THEN /\ Raise("UnboundLocalError")
            /\ UNCHANGED <<restartlocals, total_distance_calls, runs>>
       ELSE \E ret \in {KesbaResult} :
            \E new_best \in {IF BetterRun(ret.inertia, best.inertia)
                               THEN ret ELSE best} :
            \E stored \in {IF use_ten_restarts THEN new_best ELSE ret} :
            \E last \in {(~use_ten_restarts) \/ restart + 1 >= NRestarts} :
                /\ total_distance_calls' =
                     TotalCalls(init_distance_calls,
                                empty_cluster_distance_calls,
                                update_distance_calls,
                                assignment_distance_calls)
                /\ best' = IF use_ten_restarts THEN new_best ELSE best
                /\ runs' = Append(runs, ret)
                /\ err' = err
                /\ IF last
                     THEN /\ labels_' = stored.labels
                          /\ cluster_centers_' = stored.cluster_centres
                          /\ inertia_' = stored.inertia
                          /\ n_iter_' = stored.n_iter
                          /\ pc' = "idle" /\ fits' = fits + 1
                          /\ UNCHANGED restart
                     ELSE /\ restart' = restart + 1
                          /\ pc' = "seed0"
                          /\ UNCHANGED <<fitted, fits>>
  /\ UNCHANGED <<clara, topk>>
  /\ UNCHANGED cache
  /\ UNCHANGED <<params, data, X, _random_state, seedlocals, looplocals,
                 clusterlocals, draws, trace, before, first, ba_ok, others,
                 init_distance_calls, empty_cluster_distance_calls,
                 update_distance_calls, assignment_distance_calls>>
  /\ UNCHANGED <<init, base>>
  /\ UNCHANGED repair
  /\ UNCHANGED averaged

\* _predict on a fitted estimator, for a collection of one series
Predict ==
  /\ pc = "idle"
  /\ cluster_centers_ # None
  /\ \E s \in Series :
       /\ pred_in' = <<s>>
       /\ pred_out' = PredictLabels(<<s>>, cluster_centers_)
  /\ UNCHANGED <<clara, topk>>
  /\ UNCHANGED cache
  /\ UNCHANGED <<params, data, X, fitted, _random_state, counters, pc, err,
                 seedlocals, looplocals, clusterlocals, restartlocals, draws,
                 trace, callvars, lloyds_out>>
  /\ UNCHANGED runs
  /\ UNCHANGED <<init, base>>
  /\ UNCHANGED repair
  /\ UNCHANGED averaged

Next ==
  \/ Fit
  \/ SeedFirst
  \/ SeedNext
  \/ SeedReturn
  \/ KesbaLloyds
  \/ UpdateCluster
  \/ Assign
  \/ Resolve
  \/ Converge
  \/ Return
  \/ Predict

Spec == Init /\ [][Next]_vars

\* fits of an estimator that may have been given an init tuple
InitMaybeGiven ==
  InitBase({NoneNum} \cup 0..MaxSeed, {FALSE}, {FALSE}, BOOLEAN, MaxN)

NextInit == Next \/ InitTuple

SpecInit == InitMaybeGiven /\ [][NextInit]_vars

\* single runs of the pruned loop with skip_barycentre_if_labels_no_change
InitSkip ==
  /\ InitBase({NoneNum}, {FALSE}, {TRUE}, {FALSE}, MaxSkipN)
  /\ ~use_lloyds /\ ~use_ten_restarts
  /\ n_clusters >= 1 /\ max_iter >= 1

NextSkip ==
  \/ Fit
  \/ SeedFirst
  \/ SeedNext
  \/ SeedReturn
  \/ UpdateCluster
  \/ Assign
  \/ Resolve
  \/ Converge
  \/ Return

SpecSkip == InitSkip /\ [][NextSkip]_vars

NextRefit == Next \/ Refit

SpecRefit == InitSeeded /\ [][NextRefit]_vars


\* single runs of the pruned loop with use_check_centres_change_assignment
InitCache ==
  /\ InitBase({NoneNum}, {TRUE}, {FALSE}, {FALSE}, MaxCacheN)
  /\ ~use_lloyds /\ ~use_ten_restarts
  /\ n_clusters >= 1 /\ max_iter >= 1

NextCache ==
  \/ Fit
  \/ SeedFirst
  \/ SeedNext
  \/ SeedReturn
  \/ UpdateCluster
  \/ Assign
  \/ Resolve
  \/ Converge
  \/ Return

SpecCache == InitCache /\ [][NextCache]_vars

\* ------------------------------------------------------ use_random_init
\* fits of an estimator built with use_random_init=True, as a single run or
\* with the ten restarts
InitRandom ==
  /\ InitOn({NoneNum} \cup 0..MaxSeed, {FALSE}, {FALSE}, {FALSE}, {TRUE},
            MaxN, UNION {[1..n -> Series] : n \in 1..MaxN})
  /\ ~use_lloyds

NextRandom ==
  \/ Fit
  \/ SeedFirst
  \/ SeedNext
  \/ SeedReturn
  \/ RandomInit
  \/ UpdateCluster
  \/ Assign
  \/ Resolve
  \/ Converge
  \/ Return

SpecRandom == InitRandom /\ [][NextRandom]_vars

\* ------------------------------------------------- series of two channels
\* a caller holding a collection of 1..MaxChannelN series of two channels
\* (one time point each) fits a single run seeded by k-means++
TwoChannelSeries ==
  {<<p1, p2>> : p1 \in 0..MaxChannelPt, p2 \in 0..MaxChannelPt}

InitChannels ==
  /\ InitOn({NoneNum} \cup 0..MaxSeed, {FALSE}, {FALSE}, {FALSE}, {FALSE},
            MaxChannelN,
            UNION {[1..n -> TwoChannelSeries] : n \in 1..MaxChannelN})
  /\ ~use_ten_restarts

NextChannels == Fit \/ SeedFirst \/ SeedNext \/ SeedReturn

SpecChannels == InitChannels /\ [][NextChannels]_vars

\* ------------------------------------------- one assignment step by itself
\* the inputs of one assignment step: a collection, k centres, a label per
\* series and the exact distance of every series to the centre of its label,
\* in a first (i = 0) or a later (i = 1) iteration without a distance cache
AssignSeries == {<<p>> : p \in 0..MaxAssignPt}

InitAssign ==
  /\ n_clusters \in 1..MaxN
  /\ max_iter = MaxIter
  /\ random_state = NoneNum
  /\ use_lloyds = FALSE /\ use_ten_restarts = FALSE
  /\ use_random_init = FALSE
  /\ use_check_centres_change_assignment = FALSE
  /\ skip_barycentre_if_labels_no_change = FALSE
  /\ init = None /\ base = OwnArrays /\ repair = NoRepair
  /\ averaged = NoneAveraged
  /\ X \in UNION {[1..n -> AssignSeries] : n \in 1..MaxAssignN}
  /\ data = X
  /\ cluster_centres \in [1..n_clusters -> AssignSeries]
  /\ labels \in [1..Len(X) -> 0..(n_clusters - 1)]
  /\ distances_to_centres =
       [q \in DOMAIN X |-> Dist(X[q], cluster_centres[labels[q] + 1])]
  /\ i \in 0..1
  /\ prev_cluster_centres = IF i = 0 THEN None ELSE cluster_centres
  /\ prev_labels = None
  /\ prev_distances_to_centres = None
  /\ inertia = INF /\ prev_inertia = INF
  /\ cluster_centers_ = None /\ labels_ = None
  /\ inertia_ = NoneNum /\ n_iter_ = 0
  /\ _random_state = NoneNum
  /\ init_distance_calls = 0 /\ empty_cluster_distance_calls = 0
  /\ update_distance_calls = 0 /\ assignment_distance_calls = 0
  /\ total_distance_calls = 0
  /\ pc = "assign" /\ err = ""
  /\ indexes = <<>>
  /\ j = 0 /\ restart = 0 /\ best = NoBest
  /\ fits = 0 /\ draws = 0 /\ trace = <<>> /\ first = NoneNum
  /\ ba_ok = [sum |-> TRUE, sq |-> TRUE]
  /\ before = [X |-> None, fitted |-> <<None, None, NoneNum, 0>>,
               counters |-> <<0, 0, 0, 0, 0>>, err |-> "", draws |-> 0,
               rng |-> NoneNum, fits |-> 0]
  /\ pred_in = None /\ pred_out = None
  /\ lloyds_out = None
  /\ runs = <<>>
  /\ cache = NoCache
  /\ clara = NoClara /\ topk = NoTopK

\* the brute-force assignment on the same collection and centres
AssignLloyds ==
  /\ pc = "resolve"
  /\ \E r \in {KesbaLloydsAssignment(X, cluster_centres)} :
         lloyds_out' = [labels |-> r.labels,
                        distances_to_centres |-> r.distances_to_centres,
                        inertia |-> r.inertia]
  /\ pc' = "check"
  /\ UNCHANGED <<clara, topk>>
  /\ UNCHANGED cache
  /\ UNCHANGED <<params, data, X, fitted, _random_state, counters, err,
                 seedlocals, looplocals, clusterlocals, restartlocals, draws,
                 trace, callvars, predvars>>
  /\ UNCHANGED runs
  /\ UNCHANGED <<init, base>>
  /\ UNCHANGED repair
  /\ UNCHANGED averaged

NextAssign == Assign \/ AssignLloyds

SpecAssign == InitAssign /\ [][NextAssign]_vars

\* ------------------------------------ one empty-cluster repair by itself
\* the sequences that take their q-th element from the q-th of the sets
RECURSIVE OneOfEach(_)
OneOfEach(sets) ==
  IF sets = <<>> THEN {<<>>}
  ELSE {<<h>> \o t : h \in Head(sets), t \in OneOfEach(Tail(sets))}

\* the inputs of one _handle_empty_cluster call: a collection of at least
\* n_clusters series, n_clusters centres, for every series one of its
\* nearest centres as label and the distance to it, as an assignment step
\* leaves them
InitResolve ==
  /\ n_clusters \in 1..MaxN
  /\ max_iter = MaxIter
  /\ random_state = NoneNum
  /\ use_lloyds = FALSE /\ use_ten_restarts = FALSE
  /\ use_random_init = FALSE
  /\ use_check_centres_change_assignment = FALSE
  /\ skip_barycentre_if_labels_no_change = FALSE
  /\ init = None /\ base = OwnArrays /\ repair = NoRepair
  /\ averaged = NoneAveraged
  /\ X \in UNION {[1..n -> Series] : n \in n_clusters..MaxN}
  /\ data = X
  /\ cluster_centres \in [1..n_clusters -> Series]
  /\ \E pw \in {Pairwise(X, cluster_centres)} :
       /\ labels \in OneOfEach([q \in DOMAIN X |->
                                  {c \in 0..(n_clusters - 1) :
                                     pw[q][c + 1] = MinOf(pw[q])}])
       /\ distances_to_centres = [q \in DOMAIN X |-> MinOf(pw[q])]
  /\ i = 0
  /\ prev_cluster_centres = None
  /\ prev_labels = None
  /\ prev_distances_to_centres = None
  /\ inertia = SumSq(distances_to_centres) /\ prev_inertia = INF
  /\ cluster_centers_ = None /\ labels_ = None
  /\ inertia_ = NoneNum /\ n_iter_ = 0
  /\ _random_state = NoneNum
  /\ init_distance_calls = 0 /\ empty_cluster_distance_calls = 0
  /\ update_distance_calls = 0 /\ assignment_distance_calls = 0
  /\ total_distance_calls = 0
  /\ pc = "resolve" /\ err = ""
  /\ indexes = <<>>
  /\ j = 0 /\ restart = 0 /\ best = NoBest
  /\ fits = 0 /\ draws = 0 /\ trace = <<>> /\ first = NoneNum
  /\ ba_ok = [sum |-> TRUE, sq |-> TRUE]
  /\ before = [X |-> None, fitted |-> <<None, None, NoneNum, 0>>,
               counters |-> <<0, 0, 0, 0, 0>>, err |-> "", draws |-> 0,
               rng |-> NoneNum, fits |-> 0]
  /\ pred_in = None /\ pred_out = None
  /\ lloyds_out = None
  /\ runs = <<>>
  /\ cache = NoCache
  /\ clara = NoClara /\ topk = NoTopK

NextResolve == Resolve

SpecResolve == InitResolve /\ [][NextResolve]_vars


\* ------------------------------------------------- TimeSeriesCLARA._fit
\* a KESBA estimator that is built for a single series and never fitted
KesbaUnused ==
  /\ n_clusters = 1 /\ max_iter = 0 /\ random_state = NoneNum
  /\ use_lloyds = FALSE /\ use_ten_restarts = FALSE
  /\ use_random_init = FALSE
  /\ use_check_centres_change_assignment = FALSE
  /\ skip_barycentre_if_labels_no_change = FALSE
  /\ init = None /\ base = OwnArrays /\ repair = NoRepair
  /\ averaged = NoneAveraged
  /\ data = <<<<0>>>> /\ X = None
  /\ cluster_centers_ = None /\ labels_ = None
  /\ inertia_ = NoneNum /\ n_iter_ = 0
  /\ _random_state = NoneNum
  /\ init_distance_calls = 0 /\ empty_cluster_distance_calls = 0
  /\ update_distance_calls = 0 /\ assignment_distance_calls = 0
  /\ total_distance_calls = 0
  /\ pc = "idle" /\ err = ""
  /\ indexes = <<>>
  /\ cluster_centres = None /\ distances_to_centres = None /\ labels = None
  /\ inertia = INF /\ prev_inertia = INF
  /\ prev_labels = None /\ prev_cluster_centres = None
  /\ prev_distances_to_centres = None
  /\ i = NoneNum /\ j = 0 /\ restart = 0 /\ best = NoBest
  /\ fits = 0 /\ draws = 0 /\ trace = <<>> /\ first = NoneNum
  /\ ba_ok = [sum |-> TRUE, sq |-> TRUE]
  /\ before = [X |-> None, fitted |-> <<None, None, NoneNum, 0>>,
               counters |-> <<0, 0, 0, 0, 0>>, err |-> "", draws |-> 0,
               rng |-> NoneNum, fits |-> 0]
  /\ pred_in = None /\ pred_out = None
  /\ lloyds_out = None
  /\ runs = <<>>
  /\ cache = NoCache

Max2(a, b) == IF a >= b THEN a ELSE b
Min2(a, b) == IF a <= b THEN a ELSE b

\* the n_samples of a fit: the parameter, or the default when it is None
NSamples(n_samples, n_instances, k) ==
  IF n_samples = NoneNum
    THEN Max2(Min2(n_instances, 40 + 2 * k), k + 1)
    ELSE n_samples

\* the orders in which the indexes 0..n-1 can be drawn
DrawOrders(n) ==
  {s \in [1..n -> 0..(n - 1)] : \A a, b \in 1..n : a # b => s[a] # s[b]}

\* np.arange(n_samples), or a draw of n_samples of its entries without
\* replacement when the collection has more series than that
SampleIdxs(n_samples, n_instances) ==
  IF n_samples < n_instances
    THEN DrawOrders(n_samples)
    ELSE {[q \in 1..n_samples |-> q - 1]}

\* the TimeSeriesKMedoids models a fit on the series at sample_idxs can
\* give: the medoids are series of the sample, every cluster has a member
PamFits(sample_idxs, k) ==
  {[sample_idxs |-> sample_idxs, inertia_ |-> v, n_iter_ |-> m,
    labels_ |-> lab, cluster_centers_ |-> med] :
     v \in 0..MaxInertia, m \in 1..MaxPamIter,
     lab \in {l \in [DOMAIN sample_idxs -> 0..(k - 1)] :
                \A c \in 0..(k - 1) : \E q \in DOMAIN l : l[q] = c},
     med \in {d \in [1..k -> {sample_idxs[q] : q \in DOMAIN sample_idxs}] :
                \A a, b \in 1..k : a # b => d[a] # d[b]}}

NoPam == [inertia_ |-> NoneNum]

\* TimeSeriesCLARA(n_clusters=2, n_samples=2, n_sampling_iters=...) and the
\* number of series of the collection it is going to be fitted on
InitClara ==
  /\ KesbaUnused
  /\ topk = NoTopK
  /\ \E iters \in 0..MaxSamplingIters, n \in 2..MaxInstances :
       clara = [pc |-> "idle", err |-> "", n_clusters |-> 2, n_samples |-> 2,
                n_sampling_iters |-> iters, n_instances |-> n,
                it |-> 0, best_score |-> INF, best_pam |-> NoPam,
                pams |-> <<>>,
                labels_ |-> None, inertia_ |-> NoneNum,
                cluster_centers_ |-> None, n_iter_ |-> 0]

\* the score the loop compares the next model with: best_score is set before
\* the loop and not in it
ScoreToBeat(best_score, best_pam) == best_score

\* _fit up to the loop
ClaraFit ==
  /\ clara.pc = "idle"
  /\ clara' = [clara EXCEPT !.pc = "loop", !.it = 0, !.best_score = INF,
                            !.best_pam = NoPam, !.pams = <<>>]
  /\ UNCHANGED cache
  /\ UNCHANGED <<topk, params, data, X, fitted, _random_state, counters, pc,
                 err, seedlocals, looplocals, clusterlocals, restartlocals,
                 draws, trace, callvars, predvars, lloyds_out, runs, init,
                 base, repair, averaged>>

\* one pass of the loop: draw the sample, fit a PAM model on it, keep it if
\* its inertia is below the score to beat
ClaraSample ==
  /\ clara.pc = "loop"
  /\ clara.it < clara.n_sampling_iters
  /\ \E n_samples \in {NSamples(clara.n_samples, clara.n_instances,
                                clara.n_clusters)} :
       IF n_samples > clara.n_instances
         THEN \* X[sample_idxs] with an index the collection does not have
              clara' = [clara EXCEPT !.pc = "done", !.err = "IndexError"]
         ELSE \E sample_idxs \in SampleIdxs(n_samples, clara.n_instances) :
                \E pam \in PamFits(sample_idxs, clara.n_clusters) :
                  clara' = [clara EXCEPT
                    !.it = @ + 1,
                    !.pams = Append(@, pam),
                    !.best_pam =
                       IF pam.inertia_ <
                            ScoreToBeat(clara.best_score, clara.best_pam)
                         THEN pam ELSE @]
  /\ UNCHANGED cache
  /\ UNCHANGED <<topk, params, data, X, fitted, _random_state, counters, pc,
                 err, seedlocals, looplocals, clusterlocals, restartlocals,
                 draws, trace, callvars, predvars, lloyds_out, runs, init,
                 base, repair, averaged>>

\* after the loop: the attributes of best_pam become the estimator's
ClaraReturn ==
  /\ clara.pc = "loop"
  /\ clara.it >= clara.n_sampling_iters
  /\ IF clara.best_pam = NoPam
       THEN \* None has no labels_
            clara' = [clara EXCEPT !.pc = "done", !.err = "AttributeError"]
       ELSE clara' = [clara EXCEPT
              !.pc = "done",
              !.labels_ = clara.best_pam.labels_,
              !.inertia_ = clara.best_pam.inertia_,
              !.cluster_centers_ = clara.best_pam.cluster_centers_,
              !.n_iter_ = clara.best_pam.n_iter_]
  /\ UNCHANGED cache
  /\ UNCHANGED <<topk, params, data, X, fitted, _random_state, counters, pc,
                 err, seedlocals, looplocals, clusterlocals, restartlocals,
                 draws, trace, callvars, predvars, lloyds_out, runs, init,
                 base, repair, averaged>>

NextClara == ClaraFit \/ ClaraSample \/ ClaraReturn

SpecClara == InitClara /\ [][NextClara]_vars

\* --------------------------------------------- TopKQuerySearch._predict
\* id_samples and id_timestamps: the candidates [sample, timestamp] of the
\* concatenated distance profiles, both counted from 0
Candidates(distance_profiles) ==
  UNION {{<<c, t>> : t \in 0..(Len(distance_profiles[c + 1]) - 1)} :
           c \in 0..(Len(distance_profiles) - 1)}

\* the distance of a candidate
ProfileAt(distance_profiles, cand) ==
  distance_profiles[cand[1] + 1][cand[2] + 1]

\* the candidates an argsort of the profiles can put next after the ones in
\* read: those of least distance among the others (the sort leaves the order
\* of equal distances open)
NextInArgsort(distance_profiles, read) ==
  LET rest == Candidates(distance_profiles) \ {read[q] : q \in DOMAIN read}
  IN {c \in rest : \A d \in rest : ProfileAt(distance_profiles, c) <=
                                     ProfileAt(distance_profiles, d)}

\* the first n entries an argsort of the profiles can have after read
RECURSIVE ArgsortFrom(_, _, _)
ArgsortFrom(distance_profiles, read, n) ==
  IF n = 0 THEN {read}
  ELSE UNION {ArgsortFrom(distance_profiles, Append(read, c), n - 1) :
                c \in NextInArgsort(distance_profiles, read)}

\* _k: k, or the number of candidates when there are fewer
KOf(k_, n_candidates) == IF n_candidates < k_ THEN n_candidates ELSE k_

LB(candidate_timestamp, selected, exclusion_size) ==
  candidate_timestamp >= selected - exclusion_size

UBStrict(candidate_timestamp, selected, exclusion_size) ==
  candidate_timestamp < selected + exclusion_size

UB(candidate_timestamp, selected, exclusion_size) ==
  candidate_timestamp <= selected + exclusion_size

\* insert: False when a row of top_k holds the candidate's sample and a
\* timestamp within exclusion_size of the candidate's
Insert(top_k, candidate, exclusion_size) ==
  LET is_from_same_sample ==
        {r \in DOMAIN top_k : top_k[r][1] = candidate[1]}
  IN ~ \E r \in is_from_same_sample :
         /\ UB(candidate[2], top_k[r][2], exclusion_size)
         /\ LB(candidate[2], top_k[r][2], exclusion_size)

\* TopKQuerySearch(k=...), fitted on 1..MaxCases series, before a _predict
\* with the distance profiles of a query and an exclusion_size or None
InitTopK ==
  /\ KesbaUnused
  /\ clara = NoClara
  /\ \E kk \in 1..MaxK, e \in {NoneNum} \cup 0..MaxExcl,
        n_cases \in 1..MaxCases :
       \E lens \in [1..n_cases -> 1..MaxProfile] :
         \E dp \in OneOfEach([c \in 1..n_cases |->
                                [1..lens[c] -> 0..MaxDist]]) :
           topk = [pc |-> "idle", k |-> kk, exclusion_size |-> e,
                   distance_profiles |-> dp, _argsort |-> <<>>,
                   top_k |-> <<>>, n_inserted |-> 0, i_current |-> 0,
                   out |-> None]

\* _predict without an exclusion_size: the first _k entries of _argsort
TopKAll ==
  /\ topk.pc = "idle"
  /\ topk.exclusion_size = NoneNum
  /\ \E _k \in {KOf(topk.k,
                    Cardinality(Candidates(topk.distance_profiles)))} :
       \E sorted \in ArgsortFrom(topk.distance_profiles, <<>>, _k) :
         topk' = [topk EXCEPT !.pc = "done", !._argsort = sorted,
                              !.out = sorted]
  /\ UNCHANGED cache
  /\ UNCHANGED <<clara, params, data, X, fitted, _random_state, counters, pc,
                 err, seedlocals, looplocals, clusterlocals, restartlocals,
                 draws, trace, callvars, predvars, lloyds_out, runs, init,
                 base, repair, averaged>>

\* _predict with an exclusion_size, up to the loop: top_k is _k rows of
\* [-1, -1] with _argsort[0] in row 0
TopKFirst ==
  /\ topk.pc = "idle"
  /\ topk.exclusion_size # NoneNum
  /\ \E _k \in {KOf(topk.k,
                    Cardinality(Candidates(topk.distance_profiles)))} :
       \E best_match \in NextInArgsort(topk.distance_profiles, <<>>) :
         topk' = [topk EXCEPT
           !.pc = "loop",
           !._argsort = <<best_match>>,
           !.top_k = [r \in 1.._k |->
                        IF r = 1 THEN best_match ELSE <<-1, -1>>],
           !.n_inserted = 1,
           !.i_current = 1]
  /\ UNCHANGED cache
  /\ UNCHANGED <<clara, params, data, X, fitted, _random_state, counters, pc,
                 err, seedlocals, looplocals, clusterlocals, restartlocals,
                 draws, trace, callvars, predvars, lloyds_out, runs, init,
                 base, repair, averaged>>

\* one pass of the while loop on the candidate _argsort[i_current]
TopKStep ==
  /\ topk.pc = "loop"
  /\ topk.n_inserted < Len(topk.top_k)
  /\ topk.i_current < Cardinality(Candidates(topk.distance_profiles))
  /\ \E candidate \in NextInArgsort(topk.distance_profiles, topk._argsort) :
       \E insert \in {Insert(topk.top_k, candidate, topk.exclusion_size)} :
         topk' = [topk EXCEPT
           !._argsort = Append(@, candidate),
           !.top_k = IF insert
                       THEN [@ EXCEPT ![topk.n_inserted + 1] = candidate]
                       ELSE @,
           !.n_inserted = IF insert THEN @ + 1 ELSE @,
           !.i_current = @ + 1]
  /\ UNCHANGED cache
  /\ UNCHANGED <<clara, params, data, X, fitted, _random_state, counters, pc,
                 err, seedlocals, looplocals, clusterlocals, restartlocals,
                 draws, trace, callvars, predvars, lloyds_out, runs, init,
                 base, repair, averaged>>

\* the loop is over: top_k[:n_inserted] is returned
TopKReturn ==
  /\ topk.pc = "loop"
  /\ ~ (/\ topk.n_inserted < Len(topk.top_k)
        /\ topk.i_current < Cardinality(Candidates(topk.distance_profiles)))
  /\ topk' = [topk EXCEPT !.pc = "done",
                          !.out = SubSeq(topk.top_k, 1, topk.n_inserted)]
  /\ UNCHANGED cache
  /\ UNCHANGED <<clara, params, data, X, fitted, _random_state, counters, pc,
                 err, seedlocals, looplocals, clusterlocals, restartlocals,
                 draws, trace, callvars, predvars, lloyds_out, runs, init,
                 base, repair, averaged>>

NextTopK == TopKAll \/ TopKFirst \/ TopKStep \/ TopKReturn

SpecTopK == InitTopK /\ [][NextTopK]_vars

\* ------------------------------------------------------------------ claims
FitReturned == pc = "idle" /\ fits >= 1 /\ err = ""

LabelsValid(lab, k) ==
  /\ \A q \in DOMAIN lab : lab[q] >= 0 /\ lab[q] < k
  /\ \A c \in 0..(k - 1) : Members(lab, c) # {}

\* C1: after a fit that returns without raising, every entry of labels_ is
\* in [0, n_clusters) and every cluster index in [0, n_clusters) labels at
\* least one series
C1_LabelValidity == FitReturned => LabelsValid(labels_, n_clusters)

\* the same for the fits with at least one cluster
LabelValidityPositive ==
  (FitReturned /\ n_clusters >= 1) => LabelsValid(labels_, n_clusters)

\* C2: the pruned and the brute-force assignment return the same labels,
\* the same distances to centre and the same inertia
C2_PruningEquivalence ==
  lloyds_out # None =>
    /\ labels = lloyds_out.labels
    /\ distances_to_centres = lloyds_out.distances_to_centres
    /\ inertia = lloyds_out.inertia

\* the nearest centres of series q among centres
Nearest(XX, centres, q) ==
  {c \in 0..(Len(centres) - 1) :
     \A c2 \in 0..(Len(centres) - 1) :
       Dist(XX[q], centres[c + 1]) <= Dist(XX[q], centres[c2 + 1])}

\* C2 (amended): both assignments return the same distances to centre and
\* the same inertia; every label of either is a nearest centre of its
\* series, so the labels agree for every series whose nearest centre is
\* unique, and on a tie the brute-force label is the lowest nearest centre
\* while the pruned one keeps the incoming label when it is a nearest centre
C2_PruningEquivalenceUpToTies ==
  lloyds_out # None =>
    /\ distances_to_centres = lloyds_out.distances_to_centres
    /\ inertia = lloyds_out.inertia
    /\ \A q \in DOMAIN X :
         LET near == Nearest(X, cluster_centres, q)
         IN  /\ labels[q] \in near
             /\ lloyds_out.labels[q] \in near
             /\ \A c \in near : lloyds_out.labels[q] <= c
             /\ Cardinality(near) = 1 => labels[q] = lloyds_out.labels[q]

\* a series lies exactly between two centres, the brute-force label is the
\* lower one and the pruned label the other
C2_TieReached ==
  /\ lloyds_out # None
  /\ \E q \in DOMAIN X :
       /\ Cardinality(Nearest(X, cluster_centres, q)) >= 2
       /\ labels[q] # lloyds_out.labels[q]


\* the iterations of the running _kesba call whose inertia is the lower of
\* the last two (the last one alone after a single iteration)
LowerOfLastTwo ==
  LET m == Len(trace)
  IN  IF m = 1 THEN {trace[m]}
      ELSE {t \in {trace[m - 1], trace[m]} :
              /\ t.inertia <= trace[m - 1].inertia
              /\ t.inertia <= trace[m].inertia}

\* C3: when the loop of _kesba has ended, the inertia it returns is the lower
\* of the last iteration's and the one before, with the labels and centres
\* of that iteration
C3_ReturnsLowerInertia ==
  (pc = "return" /\ i # NoneNum) =>
    \E t \in LowerOfLastTwo :
      /\ KesbaResult.inertia = t.inertia
      /\ KesbaResult.labels = t.labels
      /\ KesbaResult.cluster_centres = t.cluster_centres

\* C4: a second fit with the same collection and the same integer
\* random_state consumes the same random draws, ends the same way and leaves
\* the same labels_, cluster_centers_, inertia_ and n_iter_ as the first
C4_Determinism ==
  (pc = "idle" /\ fits = 2 /\ before.fits = 1 /\ before.X = X
     /\ random_state # NoneNum) =>
    /\ fitted = before.fitted
    /\ err = before.err
    /\ draws = before.draws
    /\ _random_state = before.rng

\* a second fit of two iterations has returned after several random draws
C4_SecondFitDone ==
  /\ pc = "idle" /\ fits = 2 /\ before.fits = 1 /\ before.X = X
  /\ random_state # NoneNum
  /\ err = "" /\ draws >= 3 /\ n_iter_ = 2

\* C5: a fit with max_iter >= 1 that returns leaves an inertia_ no larger
\* than the inertia of the first assignment step, when no barycentre update
\* increased the sum of the distances of a cluster's members to its centre
C5_FinalInertiaAtMostFirst ==
  (FitReturned /\ max_iter >= 1 /\ ba_ok.sum) => inertia_ <= first

\* C5 (amended): the same, when no barycentre update increased the sum of
\* the squared distances of a cluster's members to its centre
C5_FinalInertiaAtMostFirstSquares ==
  (FitReturned /\ max_iter >= 1 /\ ba_ok.sq) => inertia_ <= first

\* a fit of two iterations has returned an inertia below the first one
C5_InertiaImproved ==
  /\ FitReturned /\ max_iter >= 1 /\ ba_ok.sq
  /\ n_iter_ = 2 /\ inertia_ < first

\* C6: the seeding never selects an index twice, and a selected index is at
\* distance 0 from the chosen centres from then on
C6_SeedingDistinct ==
  /\ \A a, b \in DOMAIN indexes : a # b => indexes[a] # indexes[b]
  /\ pc = "seed" => \A a \in DOMAIN indexes :
                      distances_to_centres[indexes[a] + 1] = 0

\* the seeding has selected three centres
C6_ThreeSeeded == pc = "seed" /\ Len(indexes) = 3 /\ n_clusters = 3


\* the label of every predicted series is the lowest index among the centres
\* at minimum distance from it
PredictedLowestNearest ==
  pred_in # None =>
    \A q \in DOMAIN pred_in :
      /\ pred_out[q] \in Nearest(pred_in, cluster_centers_, q)
      /\ \A c \in Nearest(pred_in, cluster_centers_, q) : pred_out[q] <= c

\* C7: a predict call leaves cluster_centers_, labels_, inertia_, n_iter_,
\* the generator and the distance-call counters as they were, and its labels
\* are determined by its input and the fitted centres: each is the lowest
\* index among the centres at minimum distance, so equal inputs give equal
\* labels
C7_PredictFrame ==
  [][(pc = "idle" /\ pc' = "idle" /\ fits' = fits) =>
       /\ fitted' = fitted
       /\ counters' = counters
       /\ _random_state' = _random_state
       /\ PredictedLowestNearest']_vars

\* a predicted series lies at the same distance from two nearest centres
C7_PredictedOnTie ==
  /\ pc = "idle" /\ pred_in # None
  /\ Cardinality(Nearest(pred_in, cluster_centers_, 1)) >= 2

\* C8: a fit with n_clusters > n_cases raises before anything else
\* happens: no centre is selected, nothing is drawn, and the fitted outputs
\* and every distance-call counter are as they were before the call
C8_TooManyClustersRejected ==
  (X # None /\ n_clusters > Len(X)) =>
    /\ pc = "idle" /\ err = "ValueError"
    /\ fitted = before.fitted
    /\ counters = before.counters
    /\ draws = 0 /\ indexes = <<>> /\ cluster_centres = None

\* an estimator fitted before has rejected a fit on fewer series than
\* clusters
C8_RejectedAfterFit ==
  /\ pc = "idle" /\ fits = 2 /\ n_clusters > Len(X)
  /\ labels_ # None /\ total_distance_calls > 0

\* C9: a fit with n_clusters <= 0 is rejected before any computation: it
\* raises, with no draw made, no distance evaluated and nothing fitted
C9_NonPositiveRejected ==
  (pc = "idle" /\ fits >= 1 /\ n_clusters <= 0) =>
    /\ err # ""
    /\ draws = 0
    /\ counters = before.counters
    /\ fitted = before.fitted

PairwiseDistinct(XX) ==
  \A a, b \in DOMAIN XX : a # b => Dist(XX[a], XX[b]) > 0

IsPermutation(lab) ==
  /\ \A q \in DOMAIN lab : lab[q] \in 0..(Len(lab) - 1)
  /\ \A a, b \in DOMAIN lab : a # b => lab[a] # lab[b]

AllIdentical(XX) == \A a, b \in DOMAIN XX : XX[a] = XX[b]

\* C11: a fit on identical series with 1 < n_clusters <= n_cases ends by
\* raising EmptyClusterError: it does not return and raises nothing else
C11_IdenticalRaisesEmptyCluster ==
  (pc = "idle" /\ fits >= 1 /\ AllIdentical(X)
     /\ n_clusters > 1 /\ n_clusters <= Len(X)) =>
    err = "EmptyClusterError"

\* the earliest of the runs with the lowest returned inertia
EarliestBest(rs) ==
  rs[ArgMin([q \in DOMAIN rs |-> rs[q].inertia]) + 1]

\* C12: a fit with use_ten_restarts that returns has run _kesba NRestarts
\* times; inertia_ is the minimum of the inertias those runs returned, and
\* labels_, cluster_centers_ and n_iter_ are those of the earliest run that
\* returned it
C12_RestartKeepsBest ==
  (FitReturned /\ use_ten_restarts) =>
    /\ Len(runs) = NRestarts
    /\ \A q \in DOMAIN runs : inertia_ <= runs[q].inertia
    /\ inertia_ = EarliestBest(runs).inertia
    /\ labels_ = EarliestBest(runs).labels
    /\ cluster_centers_ = EarliestBest(runs).cluster_centres
    /\ n_iter_ = EarliestBest(runs).n_iter

\* the restarts returned different inertias, and the lowest one in two runs
\* that differ in their labels, centres or number of iterations
C12_TiedBestRuns ==
  /\ FitReturned /\ use_ten_restarts
  /\ \E q \in DOMAIN runs : runs[q].inertia > inertia_
  /\ \E a, b \in DOMAIN runs :
       /\ a < b
       /\ runs[a].inertia = inertia_ /\ runs[b].inertia = inertia_
       /\ runs[a] # runs[b]

\* C13: the distance-call counters count the evaluations of one fit call: a
\* second fit on the same estimator with the same collection and the same
\* integer random_state leaves the same counter values as the first
C13_CountersPerFit ==
  (pc = "idle" /\ fits = 2 /\ before.fits = 1 /\ before.X = X
     /\ random_state # NoneNum /\ n_clusters >= 1
     /\ err = "" /\ before.err = "") =>
    counters = before.counters

\* C14: no step of a running fit changes an element of the collection X it
\* was given, and no step changes the init tuple of the caller
C14_InputReadOnly ==
  [][/\ pc # "idle" => X' = X
     /\ data' = data
     /\ init' = init]_vars

\* a fit started from an init tuple has written other centres, distances
\* and labels than the tuple's into its arrays
C14_InitTupleOutgrown ==
  /\ init # None /\ pc \in {"resolve", "check"} /\ err = ""
  /\ cluster_centres # init.cluster_centres
  /\ distances_to_centres # init.distances_to_centres
  /\ labels # init.labels

\* an upper bound on the steps the running fit call can still take: the
\* restarts left, then the seeding passes left, then the iterations left and
\* the position inside the current one
StepsLeft ==
  LET k == IF n_clusters > 0 THEN n_clusters ELSE 0
      IterSteps == k + 3
      SeedSteps == (IF k > 1 THEN k ELSE 1) + 1
      RunSteps == SeedSteps + max_iter * IterSteps + 1
      later == IF use_ten_restarts
                 THEN (NRestarts - 1 - restart) * RunSteps ELSE 0
      iter == (max_iter - i) * IterSteps + 1
  IN  CASE pc = "idle" -> 0
        [] pc = "seed0" -> later + RunSteps
        [] pc = "seed" -> later + RunSteps - Len(indexes)
        [] pc = "lloyds" -> 1
        [] pc = "update" -> later + iter - j
        [] pc = "assign" -> later + iter - k
        [] pc = "resolve" -> later + iter - k - 1
        [] pc = "check" -> later + iter - k - 2
        [] pc = "return" -> later + 1

\* C15: the loop runs at most max_iter iterations and the fit call ends: the
\* loop index stays below max_iter, every step of a running call lowers the
\* bound StepsLeft on the steps still to come, which is never negative, a
\* fit with max_iter >= 1 that returns reports 1 <= n_iter_ <= max_iter, and
\* a fit with max_iter = 0 that returns is a single run that stored the
\* seeding with n_iter_ = 0
C15_LoopTerminates ==
  /\ [](i # NoneNum => (i >= 0 /\ i < max_iter))
  /\ [](Len(trace) <= max_iter)
  /\ [](StepsLeft >= 0)
  /\ [][pc # "idle" => StepsLeft' < StepsLeft]_vars
  /\ []((FitReturned /\ max_iter >= 1) =>
          (n_iter_ >= 1 /\ n_iter_ <= max_iter))
  /\ []((FitReturned /\ max_iter = 0) =>
          (~use_ten_restarts /\ n_iter_ = 0
             /\ cluster_centers_ = TakeSeries(X, indexes)))

\* a fit allowed three iterations has stopped after the second, whose labels
\* were those of the first
C15_StoppedEarly ==
  /\ FitReturned /\ max_iter = 3 /\ n_iter_ = 2
  /\ Len(trace) = 2 /\ trace[1].labels = trace[2].labels

\* C16: a call of the empty-cluster resolver ends: either it returns and no
\* cluster in [0, n_clusters) is empty, after at most n_clusters rounds, or
\* it raises EmptyClusterError, after more than n_clusters rounds the last
\* of which left a cluster empty
C16_ResolverOutcome ==
  repair.done =>
    /\ repair.err \in {"", "EmptyClusterError"}
    /\ repair.err = "" =>
         /\ repair.rounds <= n_clusters
         /\ repair.empty = {}
         /\ pc = "check" => EmptyClusters(n_clusters, labels) = {}
    /\ repair.err = "EmptyClusterError" =>
         /\ repair.rounds > n_clusters
         /\ repair.empty # {}

\* the resolver has raised after n_clusters + 1 rounds
C16_RepairGaveUp ==
  /\ repair.done /\ repair.err = "EmptyClusterError"
  /\ pc = "idle" /\ err = "EmptyClusterError"
  /\ n_clusters >= 2

\* C17: a single-run fit with use_lloyds and max_iter >= 1, on pairwise
\* different series and a number of clusters the collection has, runs to
\* completion: it returns labels, centres, inertia and n_iter_ >= 1
C17_LloydsCompletes ==
  (pc = "idle" /\ fits >= 1 /\ use_lloyds /\ ~use_ten_restarts
     /\ max_iter >= 1 /\ n_clusters >= 1 /\ n_clusters <= Len(X)
     /\ PairwiseDistinct(X)) =>
    /\ err = ""
    /\ labels_ # None /\ cluster_centers_ # None
    /\ inertia_ # NoneNum /\ n_iter_ >= 1

\* C20: with skip_barycentre_if_labels_no_change the update step skips a
\* cluster exactly when its members are those it had when its centre was
\* last averaged: the pass for cluster j leaves j among the skipped clusters
\* if and only if the members of j are the ones recorded at its last
\* averaging
C20_SkipsOnlyUnchanged ==
  [][(pc = "update" /\ skip_barycentre_if_labels_no_change /\ err' = "") =>
       ((j \in averaged'.skipped)
          <=> (averaged.members[j + 1] = Members(labels, j)))]_vars

\* C18: after a TimeSeriesCLARA fit that returns, inertia_ is the smallest
\* inertia among the PAM models fitted on the n_sampling_iters samples, and
\* labels_, cluster_centers_ and n_iter_ are those of a model with that
\* inertia, in whatever order the samples were tried
ClaraFitted == clara.pc = "done" /\ clara.err = ""

C18_ClaraKeepsBest ==
  ClaraFitted =>
    \E q \in DOMAIN clara.pams :
      /\ \A r \in DOMAIN clara.pams :
           clara.pams[q].inertia_ <= clara.pams[r].inertia_
      /\ clara.inertia_ = clara.pams[q].inertia_
      /\ clara.labels_ = clara.pams[q].labels_
      /\ clara.cluster_centers_ = clara.pams[q].cluster_centers_
      /\ clara.n_iter_ = clara.pams[q].n_iter_

\* what the fit keeps instead: the model of the last sample
ClaraKeepsLast ==
  ClaraFitted =>
    /\ clara.inertia_ = clara.pams[Len(clara.pams)].inertia_
    /\ clara.labels_ = clara.pams[Len(clara.pams)].labels_
    /\ clara.cluster_centers_ = clara.pams[Len(clara.pams)].cluster_centers_
    /\ clara.n_iter_ = clara.pams[Len(clara.pams)].n_iter_

\* C19: a _predict with an exclusion_size returns at most k matches in
\* non-decreasing order of distance, the first of them a candidate of least
\* distance; no two of them from the same sample have timestamps within
\* exclusion_size of each other; a candidate the loop passed over lies
\* within exclusion_size of a match of its sample that was selected before
\* it, and fewer than k matches are returned only when no candidate is left
TopKReturned == topk.pc = "done" /\ topk.exclusion_size # NoneNum

PositionIn(seq, e) == CHOOSE q \in DOMAIN seq : seq[q] = e

PassedOver ==
  {topk._argsort[q] : q \in DOMAIN topk._argsort} \
  {topk.out[q] : q \in DOMAIN topk.out}

C19_TopKExclusion ==
  TopKReturned =>
    /\ Len(topk.out) >= 1 /\ Len(topk.out) <= topk.k
    /\ \A a, b \in DOMAIN topk.out :
         a < b => ProfileAt(topk.distance_profiles, topk.out[a]) <=
                  ProfileAt(topk.distance_profiles, topk.out[b])
    /\ \A c \in Candidates(topk.distance_profiles) :
         ProfileAt(topk.distance_profiles, topk.out[1]) <=
         ProfileAt(topk.distance_profiles, c)
    /\ \A a, b \in DOMAIN topk.out :
         (a # b /\ topk.out[a][1] = topk.out[b][1]) =>
           Abs(topk.out[a][2] - topk.out[b][2]) > topk.exclusion_size
    /\ \A a \in DOMAIN topk.out :
         topk.out[a] \in Candidates(topk.distance_profiles)
    /\ \A c \in PassedOver :
         \E a \in DOMAIN topk.out :
           /\ topk.out[a][1] = c[1]
           /\ Abs(topk.out[a][2] - c[2]) <= topk.exclusion_size
           /\ PositionIn(topk._argsort, topk.out[a]) <
              PositionIn(topk._argsort, c)
    /\ Len(topk.out) < topk.k =>
         Candidates(topk.distance_profiles) =
           {topk._argsort[q] : q \in DOMAIN topk._argsort}

\* a _predict that passed over the middle candidate of a sample and returned
\* the candidates on both sides of it
C19_ZoneBetweenMatches ==
  /\ TopKReturned
  /\ topk.exclusion_size = 1
  /\ \E a, b \in DOMAIN topk.out :
       /\ a < b
       /\ topk.out[a][1] = topk.out[b][1]
       /\ Abs(topk.out[a][2] - topk.out[b][2]) = 2
  /\ PassedOver # {}
  /\ Len(topk.out) = topk.k

\* C21: with use_check_centres_change_assignment an assignment step reads
\* the distance of a pair (series, centre) from prev_distances_to_centres
\* only when the previous assignment step wrote that entry; an entry left at
\* the zero the array was created with is not read in place of a distance
C21_CacheReadsOnlyStored ==
  [][(pc = "assign" /\ pc' = "resolve") =>
       \A qc \in cache'.reused :
          cache.against[qc[1]][qc[2] + 1] # NotComputed]_vars

\* C22: with use_check_centres_change_assignment every distance an
\* assignment step reads from prev_distances_to_centres was computed against
\* a centre equal to the current centre of its pair
C22_CacheReadsCurrentCentre ==
  [][(pc = "assign" /\ pc' = "resolve") =>
       \A qc \in cache'.reused :
          cache.against[qc[1]][qc[2] + 1] # NotComputed =>
            cache.against[qc[1]][qc[2] + 1] = cluster_centres[qc[2] + 1]]_vars

\* C23: after a pruned assignment step without the cache, entered with the
\* exact distance of every series to the centre of its label, every series
\* has the least of its distances to the centres in distances_to_centres and
\* a centre at that distance as its label, and no centre skipped by the test
\* min_dist < bound is nearer than the centre assigned
C23_PruningSound ==
  (pc = "resolve" /\ ~use_check_centres_change_assignment) =>
    \A q \in DOMAIN X :
      /\ distances_to_centres[q] = MinOf(Pairwise(X, cluster_centres)[q])
      /\ Dist(X[q], cluster_centres[labels[q] + 1]) = distances_to_centres[q]
      /\ \A c \in 0..(n_clusters - 1) :
           <<q, c>> \in cache.pruned =>
             Dist(X[q], cluster_centres[c + 1]) >=
               Dist(X[q], cluster_centres[labels[q] + 1])

\* a later iteration with three centres skipped one by the test for a series
\* that is at a positive distance from the centre assigned and farther from
\* another centre
C23_PrunedAndMoved ==
  /\ pc = "resolve" /\ i = 1
  /\ n_clusters = 3
  /\ \E q \in DOMAIN X :
       /\ \E c \in 0..2 : <<q, c>> \in cache.pruned
       /\ distances_to_centres[q] < MaxOf(Pairwise(X, cluster_centres)[q])
       /\ distances_to_centres[q] > 0

\* C24: while the seeding runs and when it returns, min_distances holds for
\* every series its least distance to the centres chosen so far and labels
\* the number, in order of selection, of the earliest chosen centre at that
\* distance; a series chosen as centre number c has label c and distance 0;
\* so when all n_clusters centres are chosen every cluster has a member
ChosenDistances(q) ==
  [c \in DOMAIN indexes |-> Dist(X[q], X[indexes[c] + 1])]

C24_SeedingInvariant ==
  pc = "seed" =>
    /\ \A q \in DOMAIN X :
         /\ distances_to_centres[q] = MinOf(ChosenDistances(q))
         /\ labels[q] = ArgMin(ChosenDistances(q))
    /\ \A c \in DOMAIN indexes :
         /\ labels[indexes[c] + 1] = c - 1
         /\ distances_to_centres[indexes[c] + 1] = 0
    /\ Len(indexes) >= n_clusters =>
         \A c \in 0..(n_clusters - 1) : Members(labels, c) # {}

\* two centres are chosen and a third series is equally far from both
C24_TieKeepsEarliest ==
  /\ pc = "seed" /\ Len(indexes) = 2 /\ n_clusters = 2
  /\ \E q \in DOMAIN X :
       /\ ChosenDistances(q)[1] = ChosenDistances(q)[2]
       /\ ChosenDistances(q)[1] > 0

\* C25: the seeding adds to init_distance_calls the number of distances it
\* evaluates, one per series for every centre chosen, whatever the number of
\* channels: in the first fit of a single run the counter is n_cases times
\* the number of centres chosen so far, and n_cases * n_clusters at its return
C25_SeedingCallsCounted ==
  (pc = "seed" /\ fits = 0 /\ n_clusters >= 1) =>
    init_distance_calls = Len(X) * Len(indexes)

\* C26: after a fit that returned, inertia_ is the sum over all series of the
\* squared distance from the series to the centre cluster_centers_ holds for
\* its label in labels_
C26_InertiaOfReturned ==
  (pc = "idle" /\ fits >= 1 /\ err = "" /\ labels_ # None) =>
    inertia_ = SumSq([q \in DOMAIN X |->
                        Dist(X[q], cluster_centers_[labels_[q] + 1])])

\* C27: the barycentre averager is never called for a cluster without
\* members: whenever the update step reaches cluster j and does not skip it,
\* some series is labelled j, whichever way the fit was initialised
C27_AveragedClusterHasMembers ==
  (pc = "update"
     /\ ~(skip_barycentre_if_labels_no_change
            /\ MembersUnchanged(labels, prev_labels, j))) =>
    Members(labels, j) # {}

\* C29: with use_random_init and no init tuple no fit, single run or restart,
\* runs the k-means++ seeding: the centres are drawn by _random_init
C29_RandomInitInEveryMode ==
  (use_random_init /\ init = None) => pc # "seed"

\* C28: a round of the empty-cluster resolver puts the series with the
\* largest distance to its centre in the place of the centre of one empty
\* cluster, leaves the other centres as they are and labels every series with
\* a nearest centre at its distance; a call that makes one round returns what
\* the round left and counts n_cases * n_clusters distances; a call that
\* finds no cluster empty returns labels, centres and distances as they were
\* and counts no distance
NearestAssigned(centres, lab, dtc) ==
  \A q \in DOMAIN X :
    /\ dtc[q] = MinOf(Pairwise(X, centres)[q])
    /\ Dist(X[q], centres[lab[q] + 1]) = dtc[q]

OneCentreReplaced(new_centres, E) ==
  \E e \in E :
    \E f \in DOMAIN X :
      /\ distances_to_centres[f] = MaxOf(distances_to_centres)
      /\ new_centres = [cluster_centres EXCEPT ![e + 1] = X[f]]

C28_RepairRound ==
  [][pc = "resolve" =>
       LET E == EmptyClusters(n_clusters, labels)
           r == RepairRound(X, cluster_centres, distances_to_centres, labels,
                            n_clusters)
       IN  IF E = {}
             THEN /\ pc' = "check" /\ repair'.rounds = 0
                  /\ labels' = labels
                  /\ cluster_centres' = cluster_centres
                  /\ distances_to_centres' = distances_to_centres
                  /\ empty_cluster_distance_calls' =
                       empty_cluster_distance_calls
             ELSE /\ OneCentreReplaced(r.cluster_centres, E)
                  /\ NearestAssigned(r.cluster_centres, r.labels,
                                     r.distances_to_centres)
                  /\ repair'.rounds >= 1
                  /\ (pc' = "check" /\ repair'.rounds = 1) =>
                       /\ OneCentreReplaced(cluster_centres', E)
                       /\ NearestAssigned(cluster_centres', labels',
                                          distances_to_centres')
                       /\ empty_cluster_distance_calls' =
                            empty_cluster_distance_calls
                              + Len(X) * n_clusters]_vars

\* one round filled the only empty cluster with a series that is not the
\* first, beside a centre that is no series of the collection
C28_OneRoundRepaired ==
  /\ pc = "check" /\ repair.done /\ repair.rounds = 1
  /\ n_clusters >= 2
  /\ empty_cluster_distance_calls = Len(X) * n_clusters
  /\ \E c \in DOMAIN cluster_centres :
       cluster_centres[c] \notin {X[q] : q \in DOMAIN X}
  /\ \E c \in DOMAIN cluster_centres :
       /\ cluster_centres[c] # X[1]
       /\ \E q \in DOMAIN X : cluster_centres[c] = X[q] /\ labels[q] = c - 1

\* C30: the loop of _kesba stops early only on repeated labels: when it has
\* ended after fewer than max_iter iterations, it made at least two and the
\* labels the last one ended with (after assignment and repair) are those
\* the one before ended with; two consecutive iterations never end with the
\* same labels unless the second is the last one made, and an iteration that
\* ends with the labels of the one before is followed by the return
LastRepeats ==
  /\ Len(trace) >= 2
  /\ trace[Len(trace)].labels = trace[Len(trace) - 1].labels

C30_StopsOnRepeatedLabels ==
  /\ []((pc = "return" /\ Len(trace) < max_iter) => LastRepeats)
  /\ [](\A t \in 1..(Len(trace) - 2) :
          trace[t + 1].labels # trace[t].labels)
  /\ []((pc \in {"update", "assign", "resolve"} /\ Len(trace) >= 2) =>
          ~LastRepeats)
  /\ [][(pc = "check" /\ LastRepeats) => pc' = "return"]_vars
  /\ [][(pc = "check" /\ Len(trace) = 1 /\ max_iter >= 2) =>
          pc' # "return"]_vars

\* a loop allowed three iterations has stopped after the second, and the
\* first had changed the labels the seeding gave
C30_RepeatAfterChange ==
  /\ pc = "return" /\ max_iter = 3 /\ Len(trace) = 2
  /\ trace[1].labels = trace[2].labels
  /\ \E q \in DOMAIN X : trace[1].labels[q] # q - 1
  /\ n_clusters >= 2

====
